---- MODULE Spec2Model ----
(***************************************************************************)
(* The acquisition -> calibration -> adaptive-control pipeline of the      *)
(* game: the BLE collector (src/BLEDataCollector/BLEDataCollector.py), the *)
(* foreground loop and the BCI processing thread (src/game/game.py) and    *)
(* the ball's speed (src/game/ball.py).                                    *)
(*                                                                         *)
(* Three threads interleave: the foreground loop (Game.run), the           *)
(* acquisition thread (run_ble_collector, whose event loop also runs the   *)
(* notification callback) and the processing thread                        *)
(* (Game._bci_processing_loop).  A step of the model is one access to      *)
(* state that another thread reads or writes.                              *)
(*                                                                         *)
(* Besides the pipeline (Spec, SpecFair) the module studies parts on       *)
(* their own: the collector with link loss, malformed payloads and         *)
(* clear_data (SpecCollector), the buffer's lists as objects (SpecBuffer), *)
(* compute_band_powers of src/bci_control/brainflow_stream.py over PSDs    *)
(* on a grid of frequency bins (SpecBands), remove_dc_offset               *)
(* (SpecDcOffset), the ball's speed calls (SpecBall) and the setup() and   *)
(* stop() of a BrainFlowBoard (SpecBoard).                                 *)
(*                                                                         *)
(* Ratios are exact fractions <<numerator, denominator>>.  Samples are     *)
(* abstract values.  scipy's welch is outside the repository: the          *)
(* band-power matrix it leads to is drawn from BandPowerMatrices.          *)
(***************************************************************************)
EXTENDS Integers, Sequences, FiniteSets, TLC

VARIABLES
    state,                \* Game.state
    running,              \* Game.running
    now,                  \* pygame.time.get_ticks()
    main_pc,              \* position of the foreground thread
    data,                 \* local `data` of _run_calibration_step
    calibration_data_a,   \* Game.calibration_data_a
    calibration_data_b,   \* Game.calibration_data_b
    calibrated_ratio,     \* Game.calibrated_ratio
    game_ratio,           \* Game.game_ratio
    previous_game_ratio,  \* Game.previous_game_ratio
    stop_event,           \* Game.bci_thread_stop_event
    speed,                \* Game.ball.speed
    bricks,               \* len(Game.bricks)
    processed_data,       \* BLEDataCollector.processed_data
    is_running,           \* BLEDataCollector.is_running
    acq_pc,               \* position of the acquisition thread
    subscribed,           \* a notification subscription is active
    cb_pc,                \* position inside _on_data_received
    cb_res,               \* local `res` of _on_data_received
    bci_pc,               \* position of the processing thread ("none": not started)
    bci_data,             \* local `data` of _bci_processing_loop
    powers,               \* local `powers` of the last compute_band_powers call
    tick_out,             \* speed calls made (and printed) by the last processing tick
    connected,            \* the BLE link to the device is up
    ble_log,              \* calls issued on the BleakClient, in order
    log_errors,           \* ERROR entries written by _on_data_received
    cb_raised,            \* the exception that last escaped _on_data_received
    call                  \* a call under study: its arguments and its result

vars == <<state, running, now, main_pc, data, calibration_data_a, calibration_data_b,
          calibrated_ratio, game_ratio, previous_game_ratio, stop_event, speed, bricks,
          processed_data, is_running, acq_pc, subscribed, cb_pc, cb_res,
          bci_pc, bci_data, powers, tick_out,
          connected, ble_log, log_errors, cb_raised, call>>

mainVars == <<state, running, main_pc, data, calibration_data_a, calibration_data_b,
              calibrated_ratio, bricks>>
bciVars  == <<game_ratio, previous_game_ratio, speed, bci_pc, bci_data, powers, tick_out>>
acqVars  == <<acq_pc, subscribed>>
cbVars   == <<cb_pc, cb_res>>
linkVars == <<connected, ble_log>>
errVars  == <<log_errors, cb_raised>>
pipelineVars == <<mainVars, now, stop_event, processed_data, is_running,
                  bciVars, acqVars, cbVars, linkVars, errVars>>

----------------------------------------------------------------------------
(* Bounds of the model *)

MaxSeries == 2        \* longest channel series kept in the buffer
MaxCalibration == 4   \* longest accumulated calibration series
MaxTime == 15000      \* the clock stops here
TimeStep == 5000      \* the clock advances in steps of this many ms
InitBricks == 1       \* bricks on the board at the start
MaxErrors == 1        \* most ERROR entries written to the log
MaxLen == 2           \* longest list of the buffer studied on its own
MaxObjects == 6       \* most list objects allocated in that study
MaxN == 3             \* largest num_samples passed to get_current_data
MaxWindow == 2        \* longest channel window given to remove_dc_offset
MaxSample == 2        \* largest sample value in such a window
MaxCalls == 20        \* most speed calls made on a ball studied on its own
MaxSetups == 3        \* most setup() calls that create a BoardShim on one BrainFlowBoard

----------------------------------------------------------------------------
(* Program constants *)

CALIBRATION_MS == 15000
CALIBRATION_SAMPLES == 500
PROCESSING_SAMPLES == 3200
CALIBRATION_TAIL == 3200
MAX_BALL_SPEED == 25
START_SPEED == 7
MIN_BALL_SPEED == 5
NumBands == 5
ALPHA == 2
BETA == 3

InitialRatio == <<0, 1>>    \* 0.0
DefaultRatio == <<2, 5>>    \* 0.4
FallbackRatio == <<1, 1>>   \* 1.0

\* Game.start_time as __init__ sets it; line 112 resets it for the timer on
\* the screen, which is left out.
start_time == 0
calibration_end_time == start_time + CALIBRATION_MS

----------------------------------------------------------------------------
(* Fractions *)

RatioGT(p, q) == p[1] * q[2] > q[1] * p[2]
RatioLT(p, q) == p[1] * q[2] < q[1] * p[2]
RatioEQ(p, q) == p[1] * q[2] = q[1] * p[2]
IsFiniteRatio(p) == /\ p \in Int \X Int
                    /\ p[2] > 0

----------------------------------------------------------------------------
(* The sample buffer *)

\* Python's lst[-n:]: the last n items, the whole list when n = 0 (-0 is 0)
\* or when n exceeds its length.
TailSlice(s, n) ==
    IF n = 0 \/ n >= Len(s) THEN s
    ELSE SubSeq(s, Len(s) - n + 1, Len(s))

(* Notification payloads.  Of the bytes of a payload the model keeps what
   _on_data_received looks at: whether they decode, whether they parse,
   whether the parsed value is an object, and what the object holds under
   A and under B. *)
Arr(items) == [type |-> "array", items |-> items]
\* A JSON string: extend iterates over its characters (written as tokens).
Str(items) == [type |-> "string", items |-> items]
Num == [type |-> "number", items |-> <<>>]
Missing == [type |-> "missing", items |-> <<>>]

Object(a, b) == [text |-> "object", A |-> a, B |-> b]
NotObject(text) == [text |-> text, A |-> Missing, B |-> Missing]

\* Well-formed frames: JSON objects with an array under A and under B.
Frames ==
    { Object(Arr(<<1>>), Arr(<<2>>)),
      Object(Arr(<<3>>), Arr(<<>>)) }

\* Bytes that are not UTF-8, text that is not JSON (a truncated frame),
\* JSON that is not an object, and objects whose A or B is absent or is not
\* an array.
MalformedFrames ==
    { NotObject("badutf8"),
      NotObject("notjson"),
      NotObject("array"),
      Object(Arr(<<1>>), Missing),
      Object(Missing, Arr(<<2>>)),
      Object(Num, Arr(<<2>>)),
      Object(Arr(<<1>>), Num),
      Object(Str(<<9>>), Arr(<<2>>)) }

\* A well-formed frame with two values per channel.
LongFrames == { Object(Arr(<<4, 5>>), Arr(<<6, 7>>)) }

Payloads == Frames \cup LongFrames \cup MalformedFrames

WellFormed(p) ==
    /\ p.text = "object"
    /\ p.A.type = "array"
    /\ p.B.type = "array"

\* data.decode() and json.loads(...): the exception raised, or "ok".
Decode(p) ==
    IF p.text = "badutf8" THEN "UnicodeDecodeError"
    ELSE IF p.text = "notjson" THEN "JSONDecodeError"
    ELSE "ok"

CaughtNothing(exc) == FALSE

\* `except (json.JSONDecodeError, UnicodeDecodeError)`
Caught(exc) == exc \in {"JSONDecodeError", "UnicodeDecodeError"}

\* Only a dict has .get; a list, a number, a string or None has not.
HasGet(p) == p.text = "object"

\* res.get(key, []): an absent key gives [].
Get(res, key) == IF res[key].type = "missing" THEN Arr(<<>>) ELSE res[key]

\* list.extend accepts any iterable and raises TypeError on the rest.
Iterable(v) == v.type \in {"array", "string"}

EmptyFrame == [A |-> <<>>, B |-> <<>>]

\* `res` outside a call of the callback
NoFrame == Object(Missing, Missing)

\* get_current_data reads the two series one after the other.
ReadSeries(key, n) == TailSlice(processed_data[key], n)

ExtendFront(key, values) == [processed_data EXCEPT ![key] = values \o @]

\* list.extend of one series
Extend(key, values) == [processed_data EXCEPT ![key] = @ \o values]

----------------------------------------------------------------------------
(* Band powers and the alpha/beta ratio *)

\* Relative band powers of one channel, in tenths, in declaration order
\* delta, theta, alpha, beta, gamma.
RowAlphaHigh == <<1, 1, 4, 2, 1>>
RowAlphaLow  == <<2, 2, 1, 4, 1>>
RowNoBeta    == <<5, 4, 1, 0, 0>>

\* bp has one row per channel and one column per band.
BandPowerMatrices ==
    { <<RowAlphaHigh, RowAlphaLow>>,
      <<RowAlphaLow, RowNoBeta>>,
      <<RowNoBeta, RowAlphaHigh>> }

NoPowers == <<>>

\* np.array(data) of two lists of different lengths has no 2-D shape:
\* remove_dc_offset or the ndim check of compute_band_powers raises.
Rectangular(d) == Len(d[1]) = Len(d[2])

\* What `powers, _ = band_powers` can bind: a matrix, or NoPowers when the
\* call raised before the assignment.
BandPowerResults(d) ==
    IF Rectangular(d) THEN BandPowerMatrices ELSE {NoPowers}

Raised == [kind |-> "raised"]
Skipped == [kind |-> "skipped"]
Assigned(r) == [kind |-> "assigned", ratio |-> r]

\* Variant of AlphaBetaRatio: the bands of the first channel are indexed.
AlphaBetaRatioByColumn(p) ==
    IF p = NoPowers THEN Raised
    ELSE IF p[1][BETA + 1] > 0
         THEN Assigned(<<p[1][ALPHA + 1], p[1][BETA + 1]>>)
         ELSE Skipped

\* `if powers[3] > 0: ratio = powers[2] / powers[3]`.  powers[i] indexes
\* axis 0, the channels: IndexError when there are fewer than i + 1 of
\* them; otherwise powers[3] > 0 is an array of NumBands truth values, and
\* `if` on more than one raises ValueError.
AlphaBetaRatio(p) ==
    IF p = NoPowers THEN Raised
    ELSE IF BETA >= Len(p) THEN Raised
    ELSE IF NumBands # 1 THEN Raised
    ELSE IF p[BETA + 1][1] > 0
         THEN Assigned(<<p[ALPHA + 1][1], p[BETA + 1][1]>>)
         ELSE Skipped

\* Variant of ComputeCalibrationResults: the empty accumulation is not
\* looked at first.
ComputeCalibrationResultsNoEmptyCheck(cal_a, p) ==
    LET out == AlphaBetaRatio(p) IN
    IF out.kind = "assigned" THEN out.ratio
    ELSE FallbackRatio

\* _compute_calibration_results: the baseline for the accumulated data
\* when compute_band_powers bound p.
ComputeCalibrationResults(cal_a, p) ==
    IF cal_a = <<>> THEN DefaultRatio
    ELSE LET out == AlphaBetaRatio(p) IN
         IF out.kind = "assigned" THEN out.ratio
         ELSE FallbackRatio

\* The inputs of the calibration computation: the last 3200 of each list.
CalibrationWindow(cal_a, cal_b) ==
    <<TailSlice(cal_a, CALIBRATION_TAIL), TailSlice(cal_b, CALIBRATION_TAIL)>>

\* Lines 129-139 of the processing loop: the live ratio after the try block.
LiveRatio(d, p, old) ==
    IF d[1] = <<>> THEN old
    ELSE LET out == AlphaBetaRatio(p) IN
         IF out.kind = "assigned" THEN out.ratio ELSE old

\* Ball.increase_speed / Ball.decrease_speed
increase_speed(s) == IF s <= MAX_BALL_SPEED THEN s + 1 ELSE s
decrease_speed(s) == IF s >= MIN_BALL_SPEED THEN s - 1 ELSE s

\* Variant of DecreaseDue: the previous ratio is not compared.
DecreaseDueIgnoringPrevious(g, cal, prev) == RatioLT(g, cal)

\* Variant of Adaptation: the previous ratio is not compared.
AdaptationIgnoringPrevious(g, cal, prev) ==
    (IF RatioGT(g, cal) THEN {"increase"} ELSE {})
    \cup (IF RatioLT(g, cal) THEN {"decrease"} ELSE {})

\* The two `if`s of lines 142-148: which speed calls the tick makes.
IncreaseDue(g, cal, prev) == RatioGT(g, cal) /\ ~RatioEQ(g, prev)
DecreaseDue(g, cal, prev) == RatioLT(g, cal) /\ ~RatioEQ(g, prev)

Adaptation(g, cal, prev) ==
    (IF IncreaseDue(g, cal, prev) THEN {"increase"} ELSE {})
    \cup (IF DecreaseDue(g, cal, prev) THEN {"decrease"} ELSE {})

AdjustSpeed(s, calls) ==
    LET s1 == IF "increase" \in calls THEN increase_speed(s) ELSE s
    IN  IF "decrease" \in calls THEN decrease_speed(s1) ELSE s1

----------------------------------------------------------------------------
(* Initial state: Game.__init__, BLEDataCollector.__init__, and run() up to
   the start of its loop *)

NoData == <<<<>>, <<>>>>

\* No call is under study while the pipeline runs.
NoCall == [fn |-> "none"]

PipelineInit ==
    /\ state = "calibrating"
    /\ running = TRUE
    /\ now = start_time
    /\ main_pc = "loop"
    /\ data = NoData
    /\ calibration_data_a = <<>>
    /\ calibration_data_b = <<>>
    /\ calibrated_ratio = InitialRatio
    /\ game_ratio = InitialRatio
    /\ previous_game_ratio = InitialRatio
    /\ stop_event = FALSE
    /\ speed = START_SPEED
    /\ bricks = InitBricks
    /\ processed_data = EmptyFrame
    /\ is_running = TRUE
    /\ acq_pc = "scan"
    /\ subscribed = FALSE
    /\ cb_pc = "idle"
    /\ cb_res = NoFrame
    /\ connected = FALSE
    /\ ble_log = <<>>
    /\ log_errors = 0
    /\ cb_raised = "none"
    /\ bci_pc = "none"
    /\ bci_data = NoData
    /\ powers = NoPowers
    /\ tick_out = {}

Init ==
    /\ PipelineInit
    /\ call = NoCall

----------------------------------------------------------------------------
(* The foreground thread: Game.run *)

Finished == {"game_over", "win"}

\* _handle_events: a QUIT event clears `running`; the iteration goes on.
AfterEvents(quit) == IF quit THEN FALSE ELSE running

\* `pygame.time.get_ticks() >= self.calibration_end_time`
CalibrationElapsed(t) == t >= calibration_end_time

\* `if data and data[0] and data[1]`
Accumulates(d) == d[1] # <<>> /\ d[2] # <<>>

\* Variant of WinCheck: the state is not looked at.
WinCheckUnguarded(st, left) ==
    IF left = 0 THEN "win" ELSE st

\* `if not self.bricks: if self.state == 'playing': self.state = 'win'`
WinCheck(st, left) ==
    IF left = 0 /\ st = "playing" THEN "win" ELSE st

\* Variant of BottomCheck: losing the ball starts the session over.
BottomCheckRestarts(st, bottom) ==
    IF bottom /\ st = "playing" THEN "calibrating" ELSE st

\* `if self.ball.rect.bottom >= SCREEN_HEIGHT: if self.state == 'playing'`
BottomCheck(st, bottom) ==
    IF bottom /\ st = "playing" THEN "game_over" ELSE st

\* Variant of CalibrationDoneState: the state is left as it is.
CalibrationDoneStateStays == "calibrating"

\* `self.state = 'playing'` at the end of the calibration window
CalibrationDoneState == "playing"

\* A calibrating iteration, first half: the events, then the read of
\* series A by get_current_data.
MainCalibrationReadA ==
    /\ main_pc = "loop"
    /\ running
    /\ state = "calibrating"
    /\ Len(calibration_data_a) + MaxSeries <= MaxCalibration
    /\ \E quit \in BOOLEAN : running' = AfterEvents(quit)
    /\ data' = <<ReadSeries("A", CALIBRATION_SAMPLES), <<>>>>
    /\ main_pc' = "calibrationReadB"
    /\ UNCHANGED <<state, now, calibration_data_a, calibration_data_b, calibrated_ratio,
                   stop_event, bricks, processed_data, is_running>>
    /\ UNCHANGED <<bciVars, acqVars, cbVars>>
    /\ UNCHANGED <<linkVars, errVars, call>>

\* Second half: the read of series B, the accumulation, and at the end of
\* the window _compute_calibration_results, the change of state and the
\* start of the processing thread.
MainCalibrationStep ==
    /\ main_pc = "calibrationReadB"
    /\ LET d == <<data[1], ReadSeries("B", CALIBRATION_SAMPLES)>>
           cal_a == IF Accumulates(d) THEN calibration_data_a \o d[1]
                    ELSE calibration_data_a
           cal_b == IF Accumulates(d) THEN calibration_data_b \o d[2]
                    ELSE calibration_data_b
       IN  /\ calibration_data_a' = cal_a
           /\ calibration_data_b' = cal_b
           /\ IF CalibrationElapsed(now)
              THEN /\ \E p \in (IF cal_a = <<>> THEN {powers}
                                ELSE BandPowerResults(CalibrationWindow(cal_a, cal_b))) :
                        /\ powers' = IF p = NoPowers THEN powers ELSE p
                        /\ calibrated_ratio' = ComputeCalibrationResults(cal_a, p)
                   /\ state' = CalibrationDoneState
                   /\ stop_event' = FALSE
                   /\ bci_pc' = "check"
              ELSE UNCHANGED <<powers, calibrated_ratio, state, stop_event, bci_pc>>
    /\ data' = NoData
    /\ main_pc' = "loop"
    /\ UNCHANGED <<running, now, bricks, processed_data, is_running>>
    /\ UNCHANGED <<game_ratio, previous_game_ratio, speed, bci_data, tick_out>>
    /\ UNCHANGED <<acqVars, cbVars>>
    /\ UNCHANGED <<linkVars, errVars, call>>

\* A playing iteration: the events, _update (the ball moves, may remove a
\* brick, may fall below the screen) and _draw.  When the ball is below the
\* screen the state becomes game_over and _handle_game_end is entered;
\* otherwise the brick list is looked at.
MainPlay ==
    /\ main_pc = "loop"
    /\ running
    /\ state = "playing"
    /\ \E quit \in BOOLEAN : running' = AfterEvents(quit)
    /\ \E bottom \in BOOLEAN, removed \in BOOLEAN :
         /\ bricks' = IF removed /\ bricks > 0 THEN bricks - 1 ELSE bricks
         /\ state' = IF BottomCheck(state, bottom) # state
                     THEN BottomCheck(state, bottom)
                     ELSE WinCheck(state, bricks')
    /\ main_pc' = IF state' # state THEN "gameEnd" ELSE "loop"
    /\ UNCHANGED <<now, data, calibration_data_a, calibration_data_b, calibrated_ratio,
                   stop_event, processed_data, is_running>>
    /\ UNCHANGED <<bciVars, acqVars, cbVars>>
    /\ UNCHANGED <<linkVars, errVars, call>>

\* _handle_game_end, entered right after the state became game_over or
\* win; after a game_over the brick list is still looked at.
MainGameEnd ==
    /\ main_pc = "gameEnd"
    /\ stop_event' = TRUE
    /\ state' = IF state = "game_over" THEN WinCheck(state, bricks) ELSE state
    /\ main_pc' = "loop"
    /\ UNCHANGED <<running, now, data, calibration_data_a, calibration_data_b,
                   calibrated_ratio, bricks, processed_data, is_running>>
    /\ UNCHANGED <<bciVars, acqVars, cbVars>>
    /\ UNCHANGED <<linkVars, errVars, call>>

\* An iteration after the end of the game: the events and the end screen.
MainEndScreen ==
    /\ main_pc = "loop"
    /\ running
    /\ state \in Finished
    /\ \E quit \in BOOLEAN : running' = AfterEvents(quit)
    /\ UNCHANGED <<state, now, main_pc, data, calibration_data_a, calibration_data_b,
                   calibrated_ratio, stop_event, bricks, processed_data, is_running>>
    /\ UNCHANGED <<bciVars, acqVars, cbVars>>
    /\ UNCHANGED <<linkVars, errVars, call>>

\* `while self.running` is left.
MainExitLoop ==
    /\ main_pc = "loop"
    /\ ~running
    /\ main_pc' = "shutdown"
    /\ UNCHANGED <<state, running, now, data, calibration_data_a, calibration_data_b,
                   calibrated_ratio, stop_event, bricks, processed_data, is_running>>
    /\ UNCHANGED <<bciVars, acqVars, cbVars>>
    /\ UNCHANGED <<linkVars, errVars, call>>

\* `if self.bci_thread: self.bci_thread_stop_event.set()`; the join that
\* follows gives up after its timeout.
MainStopProcessing ==
    /\ main_pc = "shutdown"
    /\ stop_event' = IF bci_pc # "none" THEN TRUE ELSE stop_event
    /\ main_pc' = "stopCollector"
    /\ UNCHANGED <<state, running, now, data, calibration_data_a, calibration_data_b,
                   calibrated_ratio, bricks, processed_data, is_running>>
    /\ UNCHANGED <<bciVars, acqVars, cbVars>>
    /\ UNCHANGED <<linkVars, errVars, call>>

\* collector.stop(); then the join with timeout, close and _cleanup.
MainStopCollector ==
    /\ main_pc = "stopCollector"
    /\ is_running' = FALSE
    /\ main_pc' = "done"
    /\ UNCHANGED <<state, running, now, data, calibration_data_a, calibration_data_b,
                   calibrated_ratio, stop_event, bricks, processed_data>>
    /\ UNCHANGED <<bciVars, acqVars, cbVars>>
    /\ UNCHANGED <<linkVars, errVars, call>>

\* The clock
Tick ==
    /\ now < MaxTime
    /\ now' = now + TimeStep
    /\ UNCHANGED <<mainVars, stop_event, processed_data, is_running>>
    /\ UNCHANGED <<bciVars, acqVars, cbVars>>
    /\ UNCHANGED <<linkVars, errVars, call>>

----------------------------------------------------------------------------
(* The processing thread: Game._bci_processing_loop *)

\* Variant of ProcessingContinues: the event is not looked at.
ProcessingContinuesAlways(ev) == TRUE

\* `while not self.bci_thread_stop_event.is_set()`
ProcessingContinues(ev) == ~ev

BciCheck ==
    /\ bci_pc = "check"
    /\ bci_pc' = IF ProcessingContinues(stop_event) THEN "readA" ELSE "done"
    /\ UNCHANGED <<mainVars, now, stop_event, processed_data, is_running>>
    /\ UNCHANGED <<game_ratio, previous_game_ratio, speed, bci_data, powers, tick_out>>
    /\ UNCHANGED <<acqVars, cbVars>>
    /\ UNCHANGED <<linkVars, errVars, call>>

BciReadA ==
    /\ bci_pc = "readA"
    /\ bci_data' = <<ReadSeries("A", PROCESSING_SAMPLES), <<>>>>
    /\ bci_pc' = "readB"
    /\ UNCHANGED <<mainVars, now, stop_event, processed_data, is_running>>
    /\ UNCHANGED <<game_ratio, previous_game_ratio, speed, powers, tick_out>>
    /\ UNCHANGED <<acqVars, cbVars>>
    /\ UNCHANGED <<linkVars, errVars, call>>

BciReadB ==
    /\ bci_pc = "readB"
    /\ bci_data' = <<bci_data[1], ReadSeries("B", PROCESSING_SAMPLES)>>
    /\ bci_pc' = "process"
    /\ UNCHANGED <<mainVars, now, stop_event, processed_data, is_running>>
    /\ UNCHANGED <<game_ratio, previous_game_ratio, speed, powers, tick_out>>
    /\ UNCHANGED <<acqVars, cbVars>>
    /\ UNCHANGED <<linkVars, errVars, call>>

\* The rest of the tick, lines 129-150: the live ratio, the speed calls and
\* the previous ratio.  Only this thread writes what it writes.
BciProcess ==
    /\ bci_pc = "process"
    /\ \E p \in (IF bci_data[1] = <<>> THEN {powers} ELSE BandPowerResults(bci_data)) :
         /\ powers' = IF p = NoPowers THEN powers ELSE p
         /\ game_ratio' = LiveRatio(bci_data, p, game_ratio)
    /\ tick_out' = Adaptation(game_ratio', calibrated_ratio, previous_game_ratio)
    /\ speed' = AdjustSpeed(speed, tick_out')
    /\ previous_game_ratio' = game_ratio'
    /\ bci_data' = NoData
    /\ bci_pc' = "sleep"
    /\ UNCHANGED <<mainVars, now, stop_event, processed_data, is_running>>
    /\ UNCHANGED <<acqVars, cbVars>>
    /\ UNCHANGED <<linkVars, errVars, call>>

\* time.sleep(5) returns.
BciWake ==
    /\ bci_pc = "sleep"
    /\ bci_pc' = "check"
    /\ UNCHANGED <<mainVars, now, stop_event, processed_data, is_running>>
    /\ UNCHANGED <<game_ratio, previous_game_ratio, speed, bci_data, powers, tick_out>>
    /\ UNCHANGED <<acqVars, cbVars>>
    /\ UNCHANGED <<linkVars, errVars, call>>

----------------------------------------------------------------------------
(* The acquisition thread: run_ble_collector, scan_and_connect,
   connect_device *)

\* `while self.is_running`
RunLoopContinues(flag) == flag

\* find_device_by_name: the device, None, or an exception.
AcqScan ==
    /\ acq_pc = "scan"
    /\ \E found \in BOOLEAN : acq_pc' = IF found THEN "connect" ELSE "done"
    /\ UNCHANGED <<mainVars, now, stop_event, processed_data, is_running, subscribed>>
    /\ UNCHANGED <<bciVars, cbVars, linkVars, errVars, call>>

\* Leaving `async with BleakClient(...)`, normally or by an exception,
\* releases the connection.
Release(log) == Append(log, "disconnect")

\* `async with BleakClient(...)` and the search for the two
\* characteristics: connecting raises, or the link is up and the
\* characteristics are there, or one is absent and the block is left.
AcqConnect ==
    /\ acq_pc = "connect"
    /\ \E outcome \in {"ok", "failed", "no_characteristics"} :
         /\ acq_pc' = IF outcome = "ok" THEN "write" ELSE "done"
         /\ connected' = (outcome = "ok")
         /\ ble_log' = IF outcome = "no_characteristics"
                       THEN Release(Append(ble_log, "connect"))
                       ELSE Append(ble_log, "connect")
    /\ UNCHANGED <<mainVars, now, stop_event, processed_data, is_running, subscribed>>
    /\ UNCHANGED <<bciVars, cbVars, errVars, call>>

\* A call on the client succeeds only while the link is up.
CallOutcomes == IF connected THEN BOOLEAN ELSE {FALSE}

\* write_gatt_char(0x39): the start-streaming command, or an exception.
AcqWrite ==
    /\ acq_pc = "write"
    /\ \E ok \in CallOutcomes :
         /\ acq_pc' = IF ok THEN "notify" ELSE "done"
         /\ connected' = (connected /\ ok)
         /\ ble_log' = IF ok THEN Append(ble_log, "write_gatt_char")
                       ELSE Release(Append(ble_log, "write_gatt_char"))
    /\ UNCHANGED <<mainVars, now, stop_event, processed_data, is_running, subscribed>>
    /\ UNCHANGED <<bciVars, cbVars, errVars, call>>

\* start_notify: the subscription, or an exception.
AcqStartNotify ==
    /\ acq_pc = "notify"
    /\ \E ok \in CallOutcomes :
         /\ subscribed' = ok
         /\ acq_pc' = IF ok THEN "loop" ELSE "done"
         /\ connected' = (connected /\ ok)
         /\ ble_log' = IF ok THEN Append(ble_log, "start_notify")
                       ELSE Release(Append(ble_log, "start_notify"))
    /\ UNCHANGED <<mainVars, now, stop_event, processed_data, is_running>>
    /\ UNCHANGED <<bciVars, cbVars, errVars, call>>

AcqLoop ==
    /\ acq_pc = "loop"
    /\ acq_pc' = IF RunLoopContinues(is_running) THEN "sleep" ELSE "unsubscribe"
    /\ UNCHANGED <<mainVars, now, stop_event, processed_data, is_running, subscribed>>
    /\ UNCHANGED <<bciVars, cbVars, linkVars, errVars, call>>

\* asyncio.sleep(0.1) returns; the event loop runs one callback at a time.
AcqWake ==
    /\ acq_pc = "sleep"
    /\ cb_pc = "idle"
    /\ acq_pc' = "loop"
    /\ UNCHANGED <<mainVars, now, stop_event, processed_data, is_running, subscribed>>
    /\ UNCHANGED <<bciVars, cbVars, linkVars, errVars, call>>

TeardownWithoutUnsubscribe(log) == Release(log)

\* After the loop: stop_notify, then the `async with` block is left.
Teardown(log) == Release(Append(log, "stop_notify"))

\* stop_notify (it raises when the link is down), then the connection is
\* released.
AcqStopNotify ==
    /\ acq_pc = "unsubscribe"
    /\ subscribed' = FALSE
    /\ connected' = FALSE
    /\ ble_log' = Teardown(ble_log)
    /\ acq_pc' = "done"
    /\ UNCHANGED <<mainVars, now, stop_event, processed_data, is_running>>
    /\ UNCHANGED <<bciVars, cbVars, errVars, call>>

\* The device goes out of range or powers off: the link drops.  Nothing in
\* connect_device listens for it.
ConnectionLost ==
    /\ connected
    /\ connected' = FALSE
    /\ UNCHANGED <<mainVars, now, stop_event, processed_data, is_running>>
    /\ UNCHANGED <<bciVars, acqVars, cbVars, ble_log, errVars, call>>

\* BLEDataCollector.stop(), which the owner may call at any time.
Stop ==
    /\ is_running
    /\ is_running' = FALSE
    /\ UNCHANGED <<mainVars, now, stop_event, processed_data>>
    /\ UNCHANGED <<bciVars, acqVars, cbVars, linkVars, errVars, call>>

\* BLEDataCollector.clear_data(), which the owner may call at any time:
\* processed_data is bound to two new empty lists.
ClearData ==
    /\ processed_data # EmptyFrame
    /\ processed_data' = EmptyFrame
    /\ UNCHANGED <<mainVars, now, stop_event, is_running>>
    /\ UNCHANGED <<bciVars, acqVars, cbVars, linkVars, errVars, call>>

----------------------------------------------------------------------------
(* The notification callback: BLEDataCollector._on_data_received, run by
   the acquisition thread's event loop while connect_device sleeps.  An
   exception that escapes it is recorded in cb_raised; the event loop goes
   on. *)

\* json.loads(data.decode()), then the first extend.
OnDataReceivedA(payloads) ==
    /\ subscribed
    /\ connected
    /\ acq_pc = "sleep"
    /\ cb_pc = "idle"
    /\ \E p \in payloads :
         IF Decode(p) # "ok" THEN
             /\ IF Caught(Decode(p))
                   THEN /\ log_errors < MaxErrors
                        /\ log_errors' = log_errors + 1
                        /\ UNCHANGED cb_raised
                   ELSE /\ cb_raised' = Decode(p)
                        /\ UNCHANGED log_errors
             /\ UNCHANGED <<processed_data, cb_pc, cb_res>>
         ELSE IF ~HasGet(p) THEN
             /\ cb_raised' = "AttributeError"
             /\ UNCHANGED <<processed_data, cb_pc, cb_res, log_errors>>
         ELSE IF ~Iterable(Get(p, "A")) THEN
             /\ cb_raised' = "TypeError"
             /\ UNCHANGED <<processed_data, cb_pc, cb_res, log_errors>>
         ELSE
             /\ Len(processed_data.A) + Len(Get(p, "A").items) <= MaxSeries
             /\ Len(processed_data.B) + Len(Get(p, "B").items) <= MaxSeries
             /\ cb_res' = p
             /\ processed_data' = Extend("A", Get(p, "A").items)
             /\ cb_pc' = "extendB"
             /\ UNCHANGED errVars
    /\ UNCHANGED <<mainVars, now, stop_event, is_running>>
    /\ UNCHANGED <<bciVars, acqVars, linkVars, call>>

\* The second extend.
OnDataReceivedB ==
    /\ cb_pc = "extendB"
    /\ IF Iterable(Get(cb_res, "B"))
         THEN /\ processed_data' = Extend("B", Get(cb_res, "B").items)
              /\ UNCHANGED cb_raised
         ELSE /\ cb_raised' = "TypeError"
              /\ UNCHANGED processed_data
    /\ cb_res' = NoFrame
    /\ cb_pc' = "idle"
    /\ UNCHANGED <<mainVars, now, stop_event, is_running, log_errors>>
    /\ UNCHANGED <<bciVars, acqVars, linkVars, call>>

----------------------------------------------------------------------------

MainNext ==
    \/ MainCalibrationReadA
    \/ MainCalibrationStep
    \/ MainPlay
    \/ MainGameEnd
    \/ MainEndScreen
    \/ MainExitLoop
    \/ MainStopProcessing
    \/ MainStopCollector

BciNext ==
    \/ BciCheck
    \/ BciReadA
    \/ BciReadB
    \/ BciProcess
    \/ BciWake

AcqNext ==
    \/ AcqScan
    \/ AcqConnect
    \/ AcqWrite
    \/ AcqStartNotify
    \/ AcqLoop
    \/ AcqWake
    \/ AcqStopNotify
    \/ OnDataReceivedB

Next ==
    \/ MainNext
    \/ BciNext
    \/ AcqNext
    \/ OnDataReceivedA(Frames)
    \/ Tick

Spec == Init /\ [][Next]_vars

\* The collector on its own: the device sends any payload, the link may
\* drop, and the owner may call stop() at any time.
CollectorNext ==
    \/ AcqNext
    \/ OnDataReceivedA(Payloads)
    \/ ConnectionLost
    \/ Stop
    \/ ClearData

SpecCollector == Init /\ [][CollectorNext]_vars

\* Each thread that can take a step eventually takes one.
SpecFair ==
    /\ Spec
    /\ WF_vars(MainNext)
    /\ WF_vars(BciNext)
    /\ WF_vars(AcqNext)

----------------------------------------------------------------------------
(* The sample buffer on its own, with its lists as objects.  call.heap
   holds every list allocated so far, a list's address being its index;
   call.A and call.B are the addresses processed_data holds, call.ret the
   addresses get_current_data last returned.  The k-th value appended to a
   list of the buffer is k; the caller appends 0. *)

BufferStart ==
    [fn |-> "buffer", op |-> "init", heap |-> << <<>>, <<>> >>,
     A |-> 1, B |-> 2, ret |-> <<>>, n |-> 0]

InitBuffer ==
    /\ PipelineInit
    /\ call = BufferStart

Freed == <<>>

\* A list nothing refers to any more is freed.
Collect(c) ==
    [c EXCEPT !.heap = [i \in DOMAIN c.heap |->
        IF i = c.A \/ i = c.B \/ (\E k \in DOMAIN c.ret : c.ret[k] = i)
        THEN c.heap[i] ELSE Freed]]

\* processed_data[key].extend: the list object itself grows.
BufferAppend ==
    /\ \E key \in {"A", "B"} :
         /\ Len(call.heap[call[key]]) < MaxLen
         /\ call' = [call EXCEPT !.op = "append",
                                  !.heap[call[key]] = Append(@, Len(@) + 1)]
    /\ UNCHANGED pipelineVars

ReadResultAliased(h, a, b, n) == [heap |-> h, ret |-> <<a, b>>]

\* get_current_data: each slice lst[-n:] is a new list object.
ReadResult(h, a, b, n) ==
    [heap |-> h \o <<TailSlice(h[a], n), TailSlice(h[b], n)>>,
     ret  |-> <<Len(h) + 1, Len(h) + 2>>]

BufferRead ==
    /\ Len(call.heap) + 2 <= MaxObjects
    /\ \E n \in 0..MaxN :
         LET r == ReadResult(call.heap, call.A, call.B, n)
         IN  call' = Collect([call EXCEPT !.op = "read", !.heap = r.heap,
                                          !.ret = r.ret, !.n = n])
    /\ UNCHANGED pipelineVars

\* clear_data binds processed_data to a new dict of two new lists.
BufferClear ==
    /\ Len(call.heap) + 2 <= MaxObjects
    /\ call' = Collect([call EXCEPT !.op = "clear",
                                     !.heap = @ \o << <<>>, <<>> >>,
                                     !.A = Len(call.heap) + 1,
                                     !.B = Len(call.heap) + 2])
    /\ UNCHANGED pipelineVars

\* The caller changes a list it was given (each list once).
CallerAppends ==
    /\ call.ret # <<>>
    /\ \E i \in 1..2 :
         /\ \A k \in DOMAIN call.heap[call.ret[i]] : call.heap[call.ret[i]][k] # 0
         /\ call' = [call EXCEPT !.op = "caller",
                                  !.heap[call.ret[i]] = Append(@, 0)]
    /\ UNCHANGED pipelineVars

BufferNext ==
    \/ BufferAppend
    \/ BufferRead
    \/ BufferClear
    \/ CallerAppends

SpecBuffer == InitBuffer /\ [][BufferNext]_vars

----------------------------------------------------------------------------
(* compute_band_powers on its own.  scipy's welch is outside the
   repository: of the data the model keeps its number of dimensions, its
   number of samples and, per channel, the PSD welch estimates from it, a
   non-negative value for each frequency bin k * sf / nperseg,
   k = 0 .. nperseg / 2.  Band limits are whole Hz, so `freq >= lo` is
   k * sf >= lo * nperseg.  Powers are exact fractions. *)

Val(num, den) == [nan |-> FALSE, num |-> num, den |-> den, db |-> FALSE]
NaN == [nan |-> TRUE, num |-> 0, den |-> 1, db |-> FALSE]

Band(name, lo, hi) == [name |-> name, lo |-> lo, hi |-> hi]

\* `bands is None`
DefaultBands ==
    << Band("delta", 1, 4), Band("theta", 4, 8), Band("alpha", 8, 13),
       Band("beta", 13, 30), Band("gamma", 30, 80) >>

\* `total_band is None`
DefaultTotal == [default |-> TRUE, lo |-> 0, hi |-> 0]
TotalBand(lo, hi) == [default |-> FALSE, lo |-> lo, hi |-> hi]

Max(a, b) == IF a > b THEN a ELSE b
Min(a, b) == IF a < b THEN a ELSE b

\* window_sec = max(1.0, min(4.0, n_samples / sf)), then
\* nperseg = max(8, min(int(round(window_sec * sf)), n_samples))
Nperseg(n_samples, sf) ==
    Max(8, Min(Max(sf, Min(4 * sf, n_samples)), n_samples))

\* The bins of the one-sided PSD.
Bins(nperseg) == 0 .. (nperseg \div 2)

IdxClosed(lo, hi, sf, nperseg) ==
    { k \in Bins(nperseg) : k * sf >= lo * nperseg /\ k * sf <= hi * nperseg }

\* np.logical_and(freqs >= lo, freqs < hi)
Idx(lo, hi, sf, nperseg) ==
    { k \in Bins(nperseg) : k * sf >= lo * nperseg /\ k * sf < hi * nperseg }

\* The bins of the denominator: those of total_band, or those below
\* sf / 2 - 1e-12, which leaves out the last bin, sf / 2, alone.
IdxTot(total_band, sf, nperseg) ==
    IF total_band.default
    THEN { k \in Bins(nperseg) : 2 * k < nperseg }
    ELSE Idx(total_band.lo, total_band.hi, sf, nperseg)

\* The sum of f over the bins a .. b.
RECURSIVE SumRange(_, _, _)
SumRange(f, a, b) ==
    IF a > b THEN 0
    ELSE IF a = b THEN f[a]
    ELSE LET m == (a + b) \div 2
         IN  SumRange(f, a, m) + SumRange(f, m + 1, b)

\* np.trapz(Pxx[c, idx], freqs[idx]): the trapezoids between neighbouring
\* bins of idx, as a fraction of V^2 (bin spacing sf / nperseg).
Trapz(P, idx, sf, nperseg) ==
    LET pair == [k \in Bins(nperseg) |->
                    IF k \in idx /\ k + 1 \in idx THEN P[k] + P[k + 1] ELSE 0]
    IN  Val(SumRange(pair, 0, nperseg \div 2) * sf, 2 * nperseg)

\* bp / total_power[:, None] after np.where(total_power <= 0, np.nan, ...)
Relative(v, total) ==
    IF total.num <= 0 THEN NaN
    ELSE Val(v.num * total.den, v.den * total.num)

\* 10 * log10(max(bp, tiny)): the value is kept and marked as dB.
ToDb(v) == [v EXCEPT !.db = TRUE]

BandInvalidNever(lo, hi) == FALSE

\* `if hi <= lo: raise ValueError`
BandInvalid(lo, hi) == hi <= lo

ValueError == [kind |-> "ValueError", bp |-> <<>>, labels |-> <<>>]

LabelsReversed(bands) ==
    [j \in DOMAIN bands |-> bands[Len(bands) + 1 - j].name]

\* labels = list(bands.keys()): a dict keeps the order of declaration.
Labels(bands) == [j \in DOMAIN bands |-> bands[j].name]

compute_band_powers(d) ==
    IF d.ndim # 2 THEN ValueError
    ELSE
    LET nperseg == Nperseg(d.n_samples, d.sf)
        n_channels == Len(d.psd)
        idx(j) == Idx(d.bands[j].lo, d.bands[j].hi, d.sf, nperseg)
        idx_tot == IdxTot(d.total_band, d.sf, nperseg)
        bp(c, j) == Trapz(d.psd[c], idx(j), d.sf, nperseg)
        total_power(c) == Trapz(d.psd[c], idx_tot, d.sf, nperseg)
        scaled(c, j) == IF d.relative THEN Relative(bp(c, j), total_power(c))
                        ELSE bp(c, j)
        out(c, j) == IF d.return_log THEN ToDb(scaled(c, j)) ELSE scaled(c, j)
    IN  IF \E j \in DOMAIN d.bands : BandInvalid(d.bands[j].lo, d.bands[j].hi)
            THEN ValueError
        ELSE IF d.relative /\ ~d.total_band.default
                /\ d.total_band.hi <= d.total_band.lo
            THEN ValueError
        ELSE IF d.relative /\ idx_tot = {}
            THEN ValueError
        ELSE [kind |-> "ok",
              bp |-> [c \in 1..n_channels |->
                        [j \in DOMAIN d.bands |-> out(c, j)]],
              labels |-> Labels(d.bands)]

(* The PSD welch estimates (Hann window, one-sided, density) from a steady
   tone at bin k: the bin and its two neighbours in the proportion 4:1:1,
   and for the tone at sf / 2 the last bin and its neighbour in the
   proportion 2:1, since the last bin is not doubled. *)
HannTone(k, nperseg) ==
    LET last == nperseg \div 2
    IN  [i \in Bins(nperseg) |->
            IF k = last
            THEN (IF i = last THEN 2 ELSE IF i = last - 1 THEN 1 ELSE 0)
            ELSE (IF i = k THEN 4 ELSE IF i = k - 1 \/ i = k + 1 THEN 1 ELSE 0)]

\* A signal that is constant, and one whose power is the same in every bin.
ZeroPsd(nperseg) == [i \in Bins(nperseg) |-> 0]
FlatPsd(nperseg) == [i \in Bins(nperseg) |-> 1]

PsdRows(nperseg, tones) ==
    {ZeroPsd(nperseg), FlatPsd(nperseg)}
        \cup { HannTone(k, nperseg) : k \in tones }

\* Eight samples at 8 Hz: nperseg = 8, bins at 0, 1, 2, 3 and 4 Hz.
SmallData ==
    [ndim : {1, 2, 3}, n_samples : {8}, sf : {8},
     psd : { <<a, b>> : a \in PsdRows(8, 1..4), b \in PsdRows(8, {2, 4}) }]

SmallBands ==
    { << Band("low", 0, 2), Band("high", 2, 5) >>,
      << Band("low", 1, 3), Band("none", 3, 3) >>,
      << Band("back", 4, 1), Band("low", 1, 3) >>,
      << Band("top", 3, 5) >>,
      << Band("beyond", 5, 6) >>,
      << Band("low", 0, 2), Band("beyond", 5, 6) >> }

SmallTotals ==
    { DefaultTotal, TotalBand(1, 3), TotalBand(3, 1), TotalBand(5, 6) }

\* 2 channels of 1280 samples at 64 Hz: nperseg = 256, bins 0.25 Hz apart
\* up to 32 Hz.
ScenarioData ==
    [ndim : {2}, n_samples : {1280}, sf : {64},
     psd : { <<a, b>> : a \in PsdRows(256, {4, 40, 100, 127, 128}),
                        b \in PsdRows(256, {40, 128}) }]

Arguments(x, bands, relative, return_log, total_band) ==
    [ndim |-> x.ndim, n_samples |-> x.n_samples, sf |-> x.sf,
     psd |-> x.psd, bands |-> bands, relative |-> relative,
     return_log |-> return_log, total_band |-> total_band]

BandInputs ==
    { Arguments(d, b, r, l, t) :
        d \in SmallData, b \in SmallBands, r \in BOOLEAN, l \in BOOLEAN,
        t \in SmallTotals }
    \cup
    { Arguments(d, DefaultBands, TRUE, FALSE, DefaultTotal) : d \in ScenarioData }

\* The call is made twice on the same arguments; `frozen` keeps them as
\* they were before the first call, `first` what the first call gave.
InitBands ==
    /\ PipelineInit
    /\ \E d \in BandInputs :
         call = [fn |-> "compute_band_powers", in |-> d, frozen |-> d,
                 calls |-> 0, done |-> FALSE,
                 first |-> ValueError, out |-> ValueError]

InputAfterScaledInPlace(d) ==
    [d EXCEPT !.psd = [c \in DOMAIN d.psd |->
                         [k \in DOMAIN d.psd[c] |-> 2 * d.psd[c][k]]]]

\* The arguments after a call: compute_band_powers assigns to no element
\* of `data`, `bands` or `total_band` (bp / total_power and np.maximum
\* build new arrays), and it has no module-level or default-argument
\* object to write to.
InputAfter(d) == d

ComputeBandPowers ==
    /\ call.fn = "compute_band_powers"
    /\ call.calls < 2
    /\ call' = [call EXCEPT !.done = TRUE,
                             !.calls = @ + 1,
                             !.out = compute_band_powers(call.in),
                             !.first = IF call.calls = 0
                                       THEN compute_band_powers(call.in)
                                       ELSE @,
                             !.in = InputAfter(call.in)]
    /\ UNCHANGED pipelineVars

SpecBands == InitBands /\ [][ComputeBandPowers]_vars

----------------------------------------------------------------------------
(* Game.remove_dc_offset on its own.  The window is [series A, series B];
   the mean is a fraction, so the result is kept as numerators over
   `scale`, the number of values in the window. *)

Rows(longest) == UNION { [1..m -> 0..MaxSample] : m \in 0..longest }

Windows == { <<a, b>> : a \in Rows(MaxWindow) \ {<<>>}, b \in Rows(MaxWindow) }

DcRaised == [kind |-> "raised", scale |-> 1, rows |-> <<>>]

\* The sum of the values of a series.
Total(row) == SumRange(row, 1, Len(row))

\* np.array(data) - np.mean(data): np.mean without an axis is the mean of
\* all the values of the window, both channels together.  Series of
\* different lengths make no rectangular array: numpy raises.
remove_dc_offset(w) ==
    IF Len(w[1]) # Len(w[2]) THEN DcRaised
    ELSE LET count == Len(w[1]) + Len(w[2])
             sum == Total(w[1]) + Total(w[2])
         IN  [kind |-> "ok", scale |-> count,
              rows |-> [c \in 1..2 |->
                          [i \in DOMAIN w[c] |-> count * w[c][i] - sum]]]

InitDcOffset ==
    /\ PipelineInit
    /\ \E w \in Windows :
         call = [fn |-> "remove_dc_offset", in |-> w, done |-> FALSE,
                 out |-> DcRaised]

RemoveDcOffset ==
    /\ call.fn = "remove_dc_offset"
    /\ ~call.done
    /\ call' = [call EXCEPT !.done = TRUE, !.out = remove_dc_offset(call.in)]
    /\ UNCHANGED pipelineVars

SpecDcOffset == InitDcOffset /\ [][RemoveDcOffset]_vars

----------------------------------------------------------------------------
(* The ball's speed on its own: any sequence of increase_speed and
   decrease_speed calls on a ball created with START_SPEED. *)

InitBall ==
    /\ PipelineInit
    /\ call = [fn |-> "ball", increases |-> 0, decreases |-> 0]

BallIncrease ==
    /\ call.increases + call.decreases < MaxCalls
    /\ speed' = increase_speed(speed)
    /\ call' = [call EXCEPT !.increases = @ + 1]
    /\ UNCHANGED <<mainVars, now, stop_event, processed_data, is_running>>
    /\ UNCHANGED <<game_ratio, previous_game_ratio, bci_pc, bci_data, powers, tick_out>>
    /\ UNCHANGED <<acqVars, cbVars, linkVars, errVars>>

BallDecrease ==
    /\ call.increases + call.decreases < MaxCalls
    /\ speed' = decrease_speed(speed)
    /\ call' = [call EXCEPT !.decreases = @ + 1]
    /\ UNCHANGED <<mainVars, now, stop_event, processed_data, is_running>>
    /\ UNCHANGED <<game_ratio, previous_game_ratio, bci_pc, bci_data, powers, tick_out>>
    /\ UNCHANGED <<acqVars, cbVars, linkVars, errVars>>

BallNext ==
    \/ BallIncrease
    \/ BallDecrease

SpecBall == InitBall /\ [][BallNext]_vars

----------------------------------------------------------------------------
(* A BrainFlowBoard on its own: any sequence of setup() and stop() calls on
   one object.  Every BoardShim that setup() creates is a handle 1, 2, ...;
   handle 0 is None.  sessions records what the library holds for each
   handle: "absent" (not created), "created", "prepared", "streaming" or
   "released".  A library call either succeeds or raises BrainFlowError
   and then leaves the session as it was. *)

BoardShims == 1..MaxSetups

Outcomes == {"ok", "BrainFlowError"}

\* BrainFlowBoard.__init__: no board, both flags false; the serial port
\* and the master board are given or not.
InitBoard ==
    /\ PipelineInit
    /\ \E port \in {"None", "given"}, master \in BOOLEAN :
         call = [fn |-> "board",
                 serial_port |-> port,
                 master_board |-> master,
                 board |-> 0,
                 session_prepared |-> FALSE,
                 streaming |-> FALSE,
                 sessions |-> [b \in BoardShims |-> "absent"],
                 last |-> "__init__"]

Created == Cardinality({b \in BoardShims : call.sessions[b] # "absent"})

\* The port setup() goes on with: the given one, the first port that
\* find_device_ports() found, '' for a master board, or None.
SetupPort(found) ==
    IF call.serial_port # "None" THEN call.serial_port
    ELSE IF call.master_board THEN "empty"
    ELSE IF found THEN "found"
    ELSE "None"

\* setup() with a port: a new BoardShim, prepare_session, start_stream.
SetupBoard(port, prepare, start) ==
    LET b == Created + 1 IN
    IF prepare = "BrainFlowError"
    THEN [call EXCEPT !.serial_port = port, !.board = 0,
                      !.sessions[b] = "created", !.last = "setup"]
    ELSE IF start = "BrainFlowError"
    THEN [call EXCEPT !.serial_port = port, !.board = 0,
                      !.session_prepared = TRUE,
                      !.sessions[b] = "prepared", !.last = "setup"]
    ELSE [call EXCEPT !.serial_port = port, !.board = b,
                      !.session_prepared = TRUE, !.streaming = TRUE,
                      !.sessions[b] = "streaming", !.last = "setup"]

BoardSetup ==
    /\ call.fn = "board"
    /\ Created < MaxSetups
    /\ \E found \in BOOLEAN, prepare \in Outcomes, start \in Outcomes :
         call' = IF SetupPort(found) = "None"
                 THEN [call EXCEPT !.last = "setup"]
                 ELSE SetupBoard(SetupPort(found), prepare, start)
    /\ UNCHANGED pipelineVars

\* The first half of stop(): stop_stream when the streaming flag is set.
\* The library refuses to stop a stream that is not running.
StopStream(c, outcome) ==
    IF ~c.streaming THEN c
    ELSE IF outcome = "ok" /\ c.sessions[c.board] = "streaming"
    THEN [c EXCEPT !.streaming = FALSE, !.sessions[c.board] = "prepared"]
    ELSE [c EXCEPT !.last = "raised"]

\* The second half of stop(): release_session when the session_prepared
\* flag is set, unless stop_stream raised.
ReleaseSession(c, outcome) ==
    IF c.last = "raised" \/ ~c.session_prepared THEN c
    ELSE IF outcome = "ok" /\ c.sessions[c.board] = "prepared"
    THEN [c EXCEPT !.session_prepared = FALSE, !.sessions[c.board] = "released"]
    ELSE [c EXCEPT !.last = "raised"]

\* stop(): nothing without a board; BrainFlowError is caught and printed.
BoardStop ==
    /\ call.fn = "board"
    /\ \E stopping \in Outcomes, releasing \in Outcomes :
         call' = [ (IF call.board = 0 THEN call
                    ELSE ReleaseSession(StopStream(call, stopping), releasing))
                   EXCEPT !.last = "stop" ]
    /\ UNCHANGED pipelineVars

BoardNext ==
    \/ BoardSetup
    \/ BoardStop

SpecBoard == InitBoard /\ [][BoardNext]_vars

----------------------------------------------------------------------------
(* Steps and conditions the properties speak about *)

\* Every frame received so far carried as many A values as B values (no
\* frame of Frames carries more B values than A values).
FramesBalanced ==
    Len(processed_data.A) =
        Len(processed_data.B) + (IF cb_pc = "extendB" THEN Len(Get(cb_res, "B").items) ELSE 0)

\* The step that ends the calibration window.
CalibrationEnds == state = "calibrating" /\ state' # "calibrating"

\* The step that completes a processing tick.
TickCompletes == bci_pc = "process" /\ bci_pc' = "sleep"

\* The adaptation outcome of a tick, as the specification words it.
ExpectedSignal(live, base, prev) ==
    IF live[1] * base[2] > base[1] * live[2] /\ live[1] * prev[2] # prev[1] * live[2]
    THEN "increase"
    ELSE IF live[1] * base[2] < base[1] * live[2] /\ live[1] * prev[2] # prev[1] * live[2]
         THEN "decrease"
         ELSE "none"

SignalOf(calls) ==
    IF calls = {} THEN "none"
    ELSE IF calls = {"increase"} THEN "increase"
    ELSE IF calls = {"decrease"} THEN "decrease"
    ELSE "both"

\* alpha / beta of channel c of a band-power matrix
AlphaOverBeta(p, c) == <<p[c][ALPHA + 1], p[c][BETA + 1]>>

----------------------------------------------------------------------------
(* C1 *)

\* C1: a completed read of the processing thread is a consistent snapshot:
\* when every frame received so far carried equally many A and B values and
\* n is at least the series length, the two lists read have equal length.
C1_ConsistentSnapshot ==
    ( /\ bci_pc = "process"
      /\ FramesBalanced
      /\ PROCESSING_SAMPLES >= Len(processed_data.A) )
    => Len(bci_data[1]) = Len(bci_data[2])

----------------------------------------------------------------------------
(* C2 *)

\* C2: calibrated_ratio is written by exactly one step, the one that ends
\* the calibration window at or after calibration_end_time; no step taken
\* in another state changes it.
C2_BaselineWrittenOnce ==
    [][ /\ (state # "calibrating" => calibrated_ratio' = calibrated_ratio)
        /\ (state = "calibrating" =>
              ((calibrated_ratio' # calibrated_ratio)
                 <=> (state' = "playing" /\ now >= start_time + CALIBRATION_MS))) ]_vars

\* A processing tick has completed after calibration and the baseline is
\* the one calibration wrote.
C2_Witness ==
    /\ state = "playing"
    /\ bci_pc = "sleep"
    /\ calibrated_ratio = FallbackRatio

----------------------------------------------------------------------------
(* C3 *)

\* C3: the state moves calibrating -> playing -> (game_over | win) only;
\* calibrating is not left before calibration_end_time, and a finished
\* state never changes.
C3_StateOrder ==
    [][ /\ (state = "calibrating" => state' \in {"calibrating", "playing"})
        /\ (state = "calibrating" /\ state' = "playing"
               => now >= start_time + CALIBRATION_MS)
        /\ (state = "playing" => state' \in {"playing", "game_over", "win"})
        /\ (state \in {"game_over", "win"} => state' = state) ]_vars

\* The ball fell below the screen in the frame that removed the last
\* brick: the game is over, and stays so after _handle_game_end.
C3_Witness ==
    /\ state = "game_over"
    /\ bricks = 0
    /\ stop_event
    /\ main_pc = "loop"

----------------------------------------------------------------------------
(* C4 *)

\* C4: every processing tick produces exactly one outcome, 'increase' if
\* live > baseline and live # previous, 'decrease' if live < baseline and
\* live # previous, 'none' otherwise, and leaves previous = live.
C4_OneOutcomePerTick ==
    [][ TickCompletes =>
          /\ SignalOf(tick_out') =
                ExpectedSignal(game_ratio', calibrated_ratio, previous_game_ratio)
          /\ previous_game_ratio' = game_ratio' ]_vars

\* A tick completed with the live ratio below the baseline and equal to
\* the previous one: no speed call was made.
C4_Witness ==
    /\ bci_pc = "sleep"
    /\ tick_out = {}
    /\ RatioLT(game_ratio, calibrated_ratio)
    /\ previous_game_ratio = game_ratio

----------------------------------------------------------------------------
(* C5 *)

----------------------------------------------------------------------------
(* C6 *)

\* C6: when the calibration window ends with samples accumulated and the
\* band powers computed, the baseline is alpha / beta of a channel whose
\* beta power is > 0, and the fallback constant only when beta is not > 0.
C6_BaselineIsAlphaOverBeta ==
    [][ (CalibrationEnds /\ calibration_data_a' # <<>> /\ powers' # NoPowers) =>
          \E c \in 1..Len(powers') :
              IF powers'[c][BETA + 1] > 0
              THEN RatioEQ(calibrated_ratio', AlphaOverBeta(powers', c))
              ELSE calibrated_ratio' = FallbackRatio ]_vars

----------------------------------------------------------------------------
(* C7 *)

\* C7: a tick that found samples and computed the band powers sets the
\* live ratio to alpha / beta of a channel whose beta power is > 0, and
\* leaves it as it was when beta is not > 0.
C7_LiveRatioIsAlphaOverBeta ==
    [][ (TickCompletes /\ bci_data[1] # <<>> /\ Rectangular(bci_data)) =>
          \E c \in 1..Len(powers') :
              IF powers'[c][BETA + 1] > 0
              THEN RatioEQ(game_ratio', AlphaOverBeta(powers', c))
              ELSE UNCHANGED game_ratio ]_vars

----------------------------------------------------------------------------
(* C8 *)

\* C8: when the window ends with nothing accumulated, the baseline becomes
\* 0.4 and the state playing, with the processing thread started; and once
\* calibration has ended the baseline is a finite number.
C8_EmptyCalibrationDefault ==
    /\ [][ (CalibrationEnds /\ calibration_data_a' = <<>>) =>
             /\ calibrated_ratio' = <<2, 5>>
             /\ state' = "playing"
             /\ main_pc' = "loop"
             /\ bci_pc' = "check" ]_vars
    /\ [](state # "calibrating" => IsFiniteRatio(calibrated_ratio))

\* Calibration ended without a sample and the game is being played with
\* the default baseline.
C8_Witness ==
    /\ state = "playing"
    /\ calibration_data_a = <<>>
    /\ calibrated_ratio = <<2, 5>>
    /\ bci_pc # "none"

----------------------------------------------------------------------------
(* C9 *)

\* C9: once the state is game_over or win, no step changes the ball speed
\* or the live ratio.
C9_AdaptationFrozen ==
    [][ (state = "game_over" \/ state = "win") =>
          /\ speed' = speed
          /\ game_ratio' = game_ratio ]_vars

\* The game has ended and the stop event is set while a tick that read
\* samples is still to be processed.
C9_Witness ==
    /\ state \in {"game_over", "win"}
    /\ stop_event
    /\ bci_pc = "process"
    /\ bci_data[1] # <<>>

----------------------------------------------------------------------------
(* C10 *)

----------------------------------------------------------------------------
(* The collector: start-up and teardown order, link loss, malformed frames *)

StartupCalls == <<"connect", "write_gatt_char", "start_notify">>

\* C11: the start-streaming command and the subscription are each issued
\* once, in that order, before the run loop is entered; once stop() has
\* been called the loop exits at its next test of the flag; and after the
\* loop the unsubscribe is issued before the connection is released.
C11_OrderlyStop ==
    /\ []((acq_pc = "loop" \/ acq_pc = "sleep" \/ acq_pc = "unsubscribe")
            => ble_log = StartupCalls)
    /\ [][ (acq_pc = "loop" /\ ~is_running /\ acq_pc' # "loop")
             => acq_pc' = "unsubscribe" ]_vars
    /\ [][ (acq_pc = "sleep" /\ acq_pc' # "sleep") => acq_pc' = "loop" ]_vars
    /\ [][ (acq_pc = "unsubscribe" /\ acq_pc' # "unsubscribe")
             => /\ acq_pc' = "done"
                /\ ble_log' = StartupCalls \o <<"stop_notify", "disconnect">> ]_vars

\* A session that streamed, was stopped and has ended.
C11_Witness ==
    /\ acq_pc = "done"
    /\ ~is_running
    /\ ble_log = StartupCalls \o <<"stop_notify", "disconnect">>

\* C12: once the link is lost, the next step of the acquisition thread ends
\* the session, wherever the thread is: it does not go on streaming.
C12_LossEndsSession ==
    [][ (/\ ~connected
         /\ (acq_pc = "write" \/ acq_pc = "notify" \/ acq_pc = "loop"
               \/ acq_pc = "sleep" \/ acq_pc = "unsubscribe")
         /\ acq_pc' # acq_pc)
        => acq_pc' = "done" ]_vars

\* C13: a frame that does not decode (not UTF-8, not JSON, truncated) raises
\* nothing out of the callback, writes one ERROR entry, changes no series
\* and leaves the run loop where it is; a well-formed frame received
\* afterwards is appended in full, A then B.
C13_UndecodableFrameSkipped ==
    /\ [](cb_raised # "JSONDecodeError" /\ cb_raised # "UnicodeDecodeError")
    /\ [][ log_errors' # log_errors
             => /\ processed_data' = processed_data
                /\ acq_pc' = acq_pc
                /\ subscribed' = subscribed ]_vars
    /\ [][ (cb_pc = "idle" /\ cb_pc' = "extendB" /\ WellFormed(cb_res'))
             => processed_data' =
                  [processed_data EXCEPT !.A = @ \o cb_res'.A.items] ]_vars
    /\ [][ (cb_pc = "extendB" /\ cb_pc' = "idle" /\ WellFormed(cb_res))
             => processed_data' =
                  [processed_data EXCEPT !.B = @ \o cb_res.B.items] ]_vars

\* A well-formed frame is being appended after an undecodable one was
\* logged.
C13_Witness ==
    /\ log_errors > 0
    /\ cb_pc = "extendB"
    /\ WellFormed(cb_res)
    /\ acq_pc = "sleep"

\* C14: no payload makes the callback raise, and the callback appends
\* nothing of a frame that is not an object with an array under A and
\* under B.
C14_MalformedDropped ==
    /\ [](cb_raised = "none")
    /\ [][ cb_pc' = "extendB" => WellFormed(cb_res') ]_vars

----------------------------------------------------------------------------
(* The buffer's reads *)

\* The last min(n, Len(s)) items of s.
LastItems(s, n) == SubSeq(s, Len(s) - Min(n, Len(s)) + 1, Len(s))

\* C15: for every n >= 0 and every buffer content, get_current_data(n)
\* returns per channel the last min(n, length) values in arrival order:
\* nothing for n = 0, the whole series when n exceeds its length.
C15_ReadsLastN ==
    (call.fn = "buffer" /\ call.op = "read")
        => /\ call.heap[call.ret[1]] = LastItems(call.heap[call.A], call.n)
           /\ call.heap[call.ret[2]] = LastItems(call.heap[call.B], call.n)

\* C16: the lists get_current_data returned are not the buffer's own: an
\* append to the buffer or clear_data after the read leaves them as they
\* were, and a change the caller makes to them leaves the buffer's series
\* as they were.
C16_NoAliasing ==
    /\ [][ (call.ret # <<>> /\ (call'.op = "append" \/ call'.op = "clear"))
             => /\ call'.ret = call.ret
                /\ call'.heap[call.ret[1]] = call.heap[call.ret[1]]
                /\ call'.heap[call.ret[2]] = call.heap[call.ret[2]] ]_vars
    /\ [][ call'.op = "caller"
             => /\ call'.A = call.A
                /\ call'.B = call.B
                /\ call'.heap[call.A] = call.heap[call.A]
                /\ call'.heap[call.B] = call.heap[call.B] ]_vars

\* The caller has changed a returned list, and the buffer was cleared and
\* appended to after the read.
C16_Witness ==
    /\ call.fn = "buffer"
    /\ call.ret # <<>>
    /\ call.op = "append"
    /\ call.A # 1
    /\ call.A > call.ret[2]
    /\ call.heap[call.ret[1]] = <<1, 2, 0>>

----------------------------------------------------------------------------
(* compute_band_powers *)

\* A call of compute_band_powers has returned or raised.
BandCallDone == call.fn = "compute_band_powers" /\ call.done

\* The sum of the numerators of one channel's band values (the values of
\* one call share their denominator).
RowSum(row) == SumRange([j \in DOMAIN row |-> row[j].num], 1, Len(row))

\* The denominator of relative mode for channel c of the call.
TotalPower(c) ==
    Trapz(call.in.psd[c],
          IdxTot(call.in.total_band, call.in.sf,
                 Nperseg(call.in.n_samples, call.in.sf)),
          call.in.sf, Nperseg(call.in.n_samples, call.in.sf))

\* C17: when the data is not 2-dimensional, or some declared band has
\* high <= low, the call raises ValueError and returns nothing, whatever
\* the other bands, the data values and the relative and log flags are.
C17_ConfigFaultRaises ==
    BandCallDone =>
        ((\/ call.in.ndim # 2
          \/ \E j \in DOMAIN call.in.bands :
                call.in.bands[j].hi <= call.in.bands[j].lo)
            => call.out.kind = "ValueError")

\* 2-dimensional data with power in it, a valid band followed by an empty
\* one, relative and log on: the call raised.
C17_Witness ==
    /\ BandCallDone
    /\ call.in.ndim = 2
    /\ call.in.psd[1] = FlatPsd(8)
    /\ call.in.bands = << Band("low", 1, 3), Band("none", 3, 3) >>
    /\ call.in.relative
    /\ call.in.return_log
    /\ call.in.total_band = DefaultTotal
    /\ call.out.kind = "ValueError"

\* C18: with relative = TRUE (and no log), every value returned lies in
\* [0, 1], except that the values of a channel whose total power is not
\* positive are NaN.
C18_RelativeInUnitRange ==
    (BandCallDone /\ call.out.kind = "ok" /\ call.in.relative
        /\ ~call.in.return_log)
    => \A c \in DOMAIN call.out.bp : \A j \in DOMAIN call.out.bp[c] :
          LET v == call.out.bp[c][j]
          IN  IF TotalPower(c).num <= 0 THEN v.nan
              ELSE /\ ~v.nan
                   /\ v.den > 0
                   /\ 0 <= v.num
                   /\ v.num <= v.den

\* The bands follow one another without gap or overlap from 0 Hz to above
\* sf / 2.
Partitions(bands, sf) ==
    /\ bands[1].lo = 0
    /\ \A j \in DOMAIN bands : bands[j].lo < bands[j].hi
    /\ \A j \in 1..(Len(bands) - 1) : bands[j].hi = bands[j + 1].lo
    /\ 2 * bands[Len(bands)].hi > sf

\* C19: for bands that partition the analysed range, the absolute band
\* powers of a channel add up to the power integrated over the whole range.
C19_BandsSumToWhole ==
    (BandCallDone /\ call.out.kind = "ok" /\ ~call.in.relative
        /\ ~call.in.return_log /\ Partitions(call.in.bands, call.in.sf))
    => \A c \in DOMAIN call.out.bp :
          LET nperseg == Nperseg(call.in.n_samples, call.in.sf)
              whole == Trapz(call.in.psd[c], Bins(nperseg), call.in.sf, nperseg)
          IN  /\ \A j \in DOMAIN call.out.bp[c] : call.out.bp[c][j].den = whole.den
              /\ RowSum(call.out.bp[c]) = whole.num

\* C20: for 2 channels of 1280 samples at 64 Hz, the five default bands,
\* relative = TRUE and the default reference range, the relative band
\* powers of each channel with power in it add up to at most 1.
C20_ScenarioSumAtMostOne ==
    (/\ BandCallDone
     /\ call.in.sf = 64
     /\ call.in.n_samples = 1280
     /\ Len(call.in.psd) = 2
     /\ call.in.bands = DefaultBands
     /\ call.in.relative
     /\ ~call.in.return_log
     /\ call.in.total_band = DefaultTotal)
    => /\ call.out.kind = "ok"
       /\ \A c \in DOMAIN call.out.bp :
            call.out.bp[c][1].nan
            \/ RowSum(call.out.bp[c]) <= call.out.bp[c][1].den

\* C21: labels[j] is the name of the j-th declared band and column j of
\* every channel row is that band's power, in declaration order; with the
\* default bands column 2 is alpha and column 3 is beta (counted from 0).
C21_ColumnsFollowDeclaration ==
    (BandCallDone /\ call.out.kind = "ok")
    => LET d == call.in
           nperseg == Nperseg(d.n_samples, d.sf)
       IN  /\ DOMAIN call.out.labels = DOMAIN d.bands
           /\ \A j \in DOMAIN d.bands : call.out.labels[j] = d.bands[j].name
           /\ \A c \in DOMAIN call.out.bp :
                /\ DOMAIN call.out.bp[c] = DOMAIN d.bands
                /\ (~d.relative /\ ~d.return_log)
                     => \A j \in DOMAIN d.bands :
                           call.out.bp[c][j] =
                             Trapz(d.psd[c],
                                   Idx(d.bands[j].lo, d.bands[j].hi, d.sf, nperseg),
                                   d.sf, nperseg)
           /\ (d.bands = DefaultBands)
                => /\ call.out.labels[ALPHA + 1] = "alpha"
                   /\ call.out.labels[BETA + 1] = "beta"

\* The default bands and a 10 Hz tone in channel 2: the power is in that
\* row's alpha column.
C21_Witness ==
    /\ BandCallDone
    /\ call.out.kind = "ok"
    /\ call.in.bands = DefaultBands
    /\ call.in.psd[2] = HannTone(40, 256)
    /\ call.out.bp[2][ALPHA + 1].num > 0
    /\ call.out.bp[2][BETA + 1].num = 0

C26_HalfOpenBand ==
    (/\ BandCallDone
     /\ call.in.ndim = 2
     /\ \A j \in DOMAIN call.in.bands : call.in.bands[j].lo < call.in.bands[j].hi
     /\ ~call.in.relative
     /\ ~call.in.return_log)
    => /\ call.out.kind = "ok"
       /\ \A c \in DOMAIN call.out.bp : \A j \in DOMAIN call.in.bands :
            LET d == call.in
                nperseg == Nperseg(d.n_samples, d.sf)
                bins == { k \in 0 .. (nperseg \div 2) :
                            /\ d.bands[j].lo * nperseg <= k * d.sf
                            /\ k * d.sf < d.bands[j].hi * nperseg }
            IN  /\ call.out.bp[c][j] = Trapz(d.psd[c], bins, d.sf, nperseg)
                /\ (bins = {}) => call.out.bp[c][j].num = 0

\* A 2 Hz tone, a band [0, 2) that stops short of the 2 Hz bin and a band
\* [5, 6) that holds no bin: 0.5 and 0, no error.
C26_Witness ==
    /\ BandCallDone
    /\ call.out.kind = "ok"
    /\ ~call.in.relative
    /\ ~call.in.return_log
    /\ call.in.bands = << Band("low", 0, 2), Band("beyond", 5, 6) >>
    /\ call.in.psd[1] = HannTone(2, 8)
    /\ call.out.bp[1][1] = Val(8, 16)
    /\ call.out.bp[1][2] = Val(0, 16)

----------------------------------------------------------------------------
(* DC offset and ball speed *)

\* C23: after remove_dc_offset every channel of the window has mean zero,
\* whatever the other channel holds: each channel's own mean was
\* subtracted from it.
C23_ChannelMeansZero ==
    (call.fn = "remove_dc_offset" /\ call.done /\ call.out.kind = "ok")
    => \A c \in DOMAIN call.out.rows : Total(call.out.rows[c]) = 0

\* C29: after any sequence of increase_speed and decrease_speed calls on a
\* ball created with START_SPEED, MIN_BALL_SPEED <= speed <= MAX_BALL_SPEED.
C29_SpeedWithinBounds ==
    /\ MIN_BALL_SPEED <= speed
    /\ speed <= MAX_BALL_SPEED

----------------------------------------------------------------------------
(* The foreground loop and the calibration window *)

\* C24: no step of the foreground thread runs compute_band_powers (whose
\* result is `powers`) or decodes a frame: a step that assigns a band-power
\* result or moves the callback is a step of another thread.
C24_NoEstimationOnForeground ==
    [][ (powers' # powers \/ cb_pc' # cb_pc) => main_pc' = main_pc ]_vars

\* C25: while the state is calibrating the processing thread does not exist
\* and the ball's speed is untouched; whenever the processing thread exists
\* the baseline is final and the state has left calibrating, so every tick
\* comes after both.
C25_NoTickWhileCalibrating ==
    /\ [](state = "calibrating"
            => (bci_pc = "none" /\ tick_out = {} /\ speed = START_SPEED))
    /\ [](bci_pc # "none"
            => (state # "calibrating" /\ calibrated_ratio # InitialRatio))
    /\ [][ TickCompletes => (state # "calibrating" /\ UNCHANGED calibrated_ratio) ]_vars

\* The first tick has completed, in the playing state.
C25_Witness ==
    /\ state = "playing"
    /\ bci_pc = "sleep"
    /\ calibrated_ratio # InitialRatio
    /\ previous_game_ratio = game_ratio

\* C30: the accumulated calibration series of a channel is never longer
\* than the buffer's series of that channel, and the two accumulated series
\* have the same length.
C30_AccumulatesEachSampleOnce ==
    /\ Len(calibration_data_a) <= Len(processed_data.A)
    /\ Len(calibration_data_b) <= Len(processed_data.B)
    /\ Len(calibration_data_a) = Len(calibration_data_b)

----------------------------------------------------------------------------
(* The order of the buffer's series *)

IsPrefix(s, t) == Len(s) <= Len(t) /\ SubSeq(t, 1, Len(s)) = s

\* C27: every step either empties both series (clear_data) or leaves each
\* series a prefix of what it becomes; the callback's first step appends
\* the frame's A values, in the frame's order, after all earlier values,
\* and its second step does the same for B.
C27_AppendOnly ==
    /\ [][ \/ processed_data' = EmptyFrame
           \/ /\ IsPrefix(processed_data.A, processed_data'.A)
              /\ IsPrefix(processed_data.B, processed_data'.B) ]_vars
    /\ [][ (cb_pc = "idle" /\ cb_pc' = "extendB")
             => processed_data' =
                  [processed_data EXCEPT !.A = @ \o Get(cb_res', "A").items] ]_vars
    /\ [][ (cb_pc = "extendB" /\ cb_pc' = "idle" /\ Iterable(Get(cb_res, "B")))
             => processed_data' =
                  [processed_data EXCEPT !.B = @ \o Get(cb_res, "B").items] ]_vars

\* Two frames were appended one after the other.
C27_Witness ==
    /\ processed_data.A = <<1, 3>>
    /\ processed_data.B = <<2>>
    /\ cb_pc = "idle"

----------------------------------------------------------------------------
(* The board after stop() *)

\* C28: once stop() has returned, the streaming flag and the
\* session_prepared flag are both false and no session that was prepared
\* is still held by the library.
C28_StopResetsBoard ==
    (call.fn = "board" /\ call.last = "stop")
        => /\ ~call.streaming
           /\ ~call.session_prepared
           /\ \A b \in BoardShims : call.sessions[b] \notin {"prepared", "streaming"}

\* C31: in every state of a BrainFlowBoard reached through setup() and
\* stop(), streaming implies session_prepared and session_prepared implies
\* that board is not None.
C31_FlagsImplyBoard ==
    call.fn = "board"
        => /\ call.streaming => call.session_prepared
           /\ call.session_prepared => call.board # 0

----------------------------------------------------------------------------
(* The processing thread is started once *)

\* C32: the processing thread comes into being only in the step that takes
\* the state from calibrating to playing, with the stop event cleared, and
\* no thread exists before that step; the state never returns to
\* calibrating, so the step happens at most once; _handle_game_end is
\* entered only in the step that takes the state from playing to game_over
\* or win, and that state then stays; the stop event, once set, stays set.
C32_OneProcessingLoop ==
    /\ [][ (bci_pc = "none" /\ bci_pc' # "none")
             => (CalibrationEnds /\ state' = "playing" /\ ~stop_event') ]_vars
    /\ [][ CalibrationEnds => (bci_pc = "none" /\ bci_pc' = "check") ]_vars
    /\ [][ state # "calibrating" => state' # "calibrating" ]_vars
    /\ [][ (main_pc # "gameEnd" /\ main_pc' = "gameEnd")
             => (state = "playing" /\ (state' = "game_over" \/ state' = "win")) ]_vars
    /\ [][ (state = "game_over" \/ state = "win") => state' = state ]_vars
    /\ [][ stop_event => stop_event' ]_vars

\* The session is over: the thread was started, the game ended, the stop
\* event is set and the thread has left its loop.
C32_Witness ==
    /\ state \in {"game_over", "win"}
    /\ stop_event
    /\ bci_pc = "done"
    /\ main_pc = "done"

====
